---- MODULE Spec2Model ----
(***************************************************************************)
(* Model of ping_helper (src/src/native/ping_helper.c): one ICMP Echo      *)
(* Request is sent on a raw socket and the receive loop waits, with an     *)
(* absolute deadline, for the matching Echo Reply.                         *)
(*                                                                         *)
(* The program is sequential; pc is the position of main().  There is one  *)
(* action per system call the program blocks on or branches on.  Time is   *)
(* a struct timeval (tv_sec, tv_usec) exactly as in the code; clock is the *)
(* value gettimeofday() would return at the present moment.                *)
(***************************************************************************)
EXTENDS Integers, Sequences, FiniteSets, TLC

(* ---- bounds of the model ---- *)
MaxSec == 3
MaxDeviations == 1
MaxBufLen == 5

(* ---- constants of the program and of the wire format ---- *)
PACKET_SIZE == 64
RECV_BUF_SIZE == 1024
ICMP_HEADER_SIZE == 8
ICMP_ECHO == 8
ICMP_ECHOREPLY == 0
IPPROTO_ICMP == 1
USEC_PER_SEC == 1000000
MAX_TIMEOUT_MS == 60000
MAX_SEQ == 65535
NoExit == 0 - 1

(* ---- inputs the environment may supply ---- *)
USecs == {0, 999999}
Readings == [tv_sec : 0..MaxSec, tv_usec : USecs]
StartReadings == [tv_sec : {1}, tv_usec : USecs]
(* strtol() outcomes for argv[2]: parsed, ERANGE flag, value *)
TimeoutArgs ==
  { [parsed |-> FALSE, erange |-> FALSE, value |-> 0],
    [parsed |-> TRUE, erange |-> TRUE, value |-> 1],
    [parsed |-> TRUE, erange |-> FALSE, value |-> 0],
    [parsed |-> TRUE, erange |-> FALSE, value |-> 60001],
    [parsed |-> TRUE, erange |-> FALSE, value |-> 1],
    [parsed |-> TRUE, erange |-> FALSE, value |-> 1000],
    [parsed |-> TRUE, erange |-> FALSE, value |-> 1500] }
(* strtol() outcomes for argv[3] *)
SeqArgs ==
  { [parsed |-> FALSE, erange |-> FALSE, value |-> 0],
    [parsed |-> TRUE, erange |-> FALSE, value |-> 65536],
    [parsed |-> TRUE, erange |-> FALSE, value |-> 0 - 1],
    [parsed |-> TRUE, erange |-> FALSE, value |-> 513] }
Argcs == 2..5
Pids == {70196}
Addrs == {"target", "other"}
TargetAddr == "target"

(* ---- state ---- *)
VARIABLES
  pc,             \* position in main(): start, resolve, socket, connect,
                  \* setsockopt, send, loop, select, recv, done
  argc,           \* argument count
  timeout_ms,     \* validated timeout
  icmp_seq_value, \* sequence number of the request
  pid,            \* getpid()
  dest_addr,      \* resolved target address
  res,            \* addrinfo list: none, held, freed
  frees,          \* number of freeaddrinfo() calls
  sock,           \* raw socket: none, open, closed
  closes,         \* number of close() calls
  badUse,         \* a socket call was made on a socket that is not open
  stderr,         \* messages written to the error stream, in order
  stdout,         \* result lines printed, in order
  packet,         \* the Echo Request as built (wire values)
  sends,          \* number of sendto() calls
  start_time, deadline, now, remaining, end_time,
  expected_id, expected_seq, expected_addr, reply_ttl,
  select_result,  \* value of the last select(): -1, 0, 1; -2 before any
  dg,             \* datagram of this loop iteration (recv_buf, recv_len, recv_addr)
  exit_code,      \* value returned by main(), NoExit while running
  cause,          \* which return statement ended main(), "none" while running
  clock,          \* present value of the wall clock
  monotone,       \* the clock has never been read lower than before
  waited,         \* microseconds spent inside select() while monotone
  ckpc,           \* checksum harness: idle, input, zeroed, computed, applied, verified
  buf,            \* checksum harness: the byte buffer
  ckoff,          \* checksum harness: byte offset of the 16-bit checksum field
  cksum,          \* checksum harness: value checksum() returned for the zeroed buffer
  ckverify        \* checksum harness: value checksum() returned for the filled buffer

vars ==
  << pc, argc, timeout_ms, icmp_seq_value, pid, dest_addr, res, frees, sock,
     closes, badUse, stderr, stdout, packet, sends, start_time, deadline, now,
     remaining, end_time, expected_id, expected_seq, expected_addr, reply_ttl,
     select_result, dg, exit_code, cause, clock, monotone, waited,
     ckpc, buf, ckoff, cksum, ckverify >>

argVars == << argc, timeout_ms, icmp_seq_value, pid >>
timeVars == << start_time, deadline, now, remaining, end_time >>
expVars == << expected_id, expected_seq, expected_addr >>
envVars == << clock, monotone, waited >>
ckVars == << ckpc, buf, ckoff, cksum, ckverify >>

(* ---- byte order (little-endian host) ---- *)
Htons(x) == (x % 256) * 256 + (x \div 256)
Ntohs(x) == (x % 256) * 256 + (x \div 256)

(* ---- struct timeval arithmetic, as main() does it ---- *)
Tv(s, u) == [tv_sec |-> s, tv_usec |-> u]

ComputeDeadlineNoCarry(start, ms) ==
  LET s == start.tv_sec + (ms \div 1000)
      u == start.tv_usec + ((ms % 1000) * 1000)
  IN  IF u >= USEC_PER_SEC THEN Tv(s, u - USEC_PER_SEC) ELSE Tv(s, u)

ComputeDeadline(start, ms) ==
  LET s == start.tv_sec + (ms \div 1000)
      u == start.tv_usec + ((ms % 1000) * 1000)
  IN  IF u >= USEC_PER_SEC THEN Tv(s + 1, u - USEC_PER_SEC) ELSE Tv(s, u)

ComputeRemainingRestart(dl, n) ==
  Tv(timeout_ms \div 1000, (timeout_ms % 1000) * 1000)

ComputeRemainingNoBorrow(dl, n) ==
  LET s == dl.tv_sec - n.tv_sec
      u == dl.tv_usec - n.tv_usec
  IN  IF u < 0 THEN Tv(s, u + USEC_PER_SEC) ELSE Tv(s, u)

ComputeRemaining(dl, n) ==
  LET s == dl.tv_sec - n.tv_sec
      u == dl.tv_usec - n.tv_usec
  IN  IF u < 0 THEN Tv(s - 1, u + USEC_PER_SEC) ELSE Tv(s, u)

IsExpiredStrict(rem) ==
  rem.tv_sec < 0 \/ (rem.tv_sec = 0 /\ rem.tv_usec < 0)

IsExpired(rem) ==
  rem.tv_sec < 0 \/ (rem.tv_sec = 0 /\ rem.tv_usec <= 0)

(* what the kernel's timer does with the timeout handed to select() *)
TvAdd(a, d) ==
  LET u == a.tv_usec + d.tv_usec
  IN  IF u >= USEC_PER_SEC THEN Tv(a.tv_sec + d.tv_sec + 1, u - USEC_PER_SEC)
      ELSE Tv(a.tv_sec + d.tv_sec, u)

TvLE(a, b) ==
  a.tv_sec < b.tv_sec \/ (a.tv_sec = b.tv_sec /\ a.tv_usec <= b.tv_usec)

Micros(t) == t.tv_sec * USEC_PER_SEC + t.tv_usec

(* ---- received datagrams ---- *)
NoDg ==
  [recv_len |-> 0 - 1, ip_hl |-> 0, ip_v |-> 0, ip_p |-> 0, ip_ttl |-> 0 - 1,
   icmp_type |-> 0 - 1, icmp_code |-> 0 - 1, icmp_id |-> 0 - 1,
   icmp_seq |-> 0 - 1, src |-> "none"]

NoTv == Tv(0 - 1, 0 - 1)

NoPacket ==
  [icmp_type |-> 0 - 1, icmp_code |-> 0 - 1, icmp_cksum |-> 0 - 1,
   icmp_id |-> 0 - 1, icmp_seq |-> 0 - 1]

MainInit ==
  /\ pc = "start"
  /\ argc = 0
  /\ timeout_ms = 0
  /\ icmp_seq_value = 1
  /\ pid \in Pids
  /\ dest_addr = "none"
  /\ res = "none"
  /\ frees = 0
  /\ sock = "none"
  /\ closes = 0
  /\ badUse = FALSE
  /\ stderr = << >>
  /\ stdout = << >>
  /\ packet = NoPacket
  /\ sends = 0
  /\ start_time = NoTv
  /\ deadline = NoTv
  /\ now = NoTv
  /\ remaining = NoTv
  /\ end_time = NoTv
  /\ expected_id = 0
  /\ expected_seq = 0
  /\ expected_addr = "none"
  /\ reply_ttl = 0 - 1
  /\ select_result = 0 - 2
  /\ dg = NoDg
  /\ exit_code = NoExit
  /\ cause = "none"
  /\ clock = Tv(0, 0)
  /\ monotone = TRUE
  /\ waited = 0

Init ==
  /\ MainInit
  /\ ckpc = "idle"
  /\ buf = << >>
  /\ ckoff = 0
  /\ cksum = 0
  /\ ckverify = 0

(* ---- the return statements of main(): exit code, message(s) written to   *)
(* ---- the error stream, whether close(sockfd) and freeaddrinfo(res) run   *)
Ret(kind, code, msgs, cl, fr) ==
  [kind |-> kind, code |-> code, msgs |-> msgs, close |-> cl, free |-> fr]

RetUsage == Ret("usage", 1, << "usage" >>, FALSE, FALSE)
RetBadTimeout == Ret("bad_timeout", 2, << "error: timeout_ms" >>, FALSE, FALSE)
RetBadSeq == Ret("bad_seq", 2, << "error: icmp_seq" >>, FALSE, FALSE)
RetResolve == Ret("resolve", 3, << "error: cannot resolve host" >>, FALSE, FALSE)
RetSocket ==
  Ret("socket", 4, << "error: cannot create raw socket", "note: requires cap_net_raw" >>,
      FALSE, TRUE)
RetConnectLeak == Ret("connect", 4, << "error: connect failed" >>, FALSE, TRUE)

RetConnect == Ret("connect", 4, << "error: connect failed" >>, TRUE, TRUE)
RetSend == Ret("send", 5, << "error: sendto failed" >>, TRUE, TRUE)
RetExpired == Ret("expired", 7, << >>, TRUE, TRUE)
RetSelectErrorAsTimeout == Ret("select_error", 7, << "error: select failed" >>, TRUE, TRUE)

RetSelectError == Ret("select_error", 6, << "error: select failed" >>, TRUE, TRUE)
RetSelectTimeout == Ret("select_timeout", 7, << >>, TRUE, TRUE)
RetRecv == Ret("recv", 8, << "error: recvfrom failed" >>, TRUE, TRUE)
RetMatched == Ret("matched", 0, << >>, TRUE, TRUE)

(* main() returns through r *)
Return(r) ==
  /\ pc' = "done"
  /\ exit_code' = r.code
  /\ cause' = r.kind
  /\ stderr' = stderr \o r.msgs
  /\ sock' = IF r.close THEN "closed" ELSE sock
  /\ closes' = IF r.close THEN closes + 1 ELSE closes
  /\ badUse' = (badUse \/ (r.close /\ sock # "open"))
  /\ res' = IF r.free THEN "freed" ELSE res
  /\ frees' = IF r.free THEN frees + 1 ELSE frees

(* a call on sockfd that is not close() *)
UseSocket == badUse' = (badUse \/ sock # "open")

(* gettimeofday(): the clock is read as c *)
ReadClockAs(c) ==
  /\ clock' = c
  /\ monotone' = (monotone /\ TvLE(clock, c))
  /\ waited' = IF monotone /\ TvLE(clock, c) THEN waited ELSE 0

(* ---- argument parsing, lines 52-96 ---- *)
TimeoutOk(t) ==
  t.parsed /\ ~t.erange /\ t.value > 0 /\ t.value <= MAX_TIMEOUT_MS

SeqOk(q) ==
  q.parsed /\ ~q.erange /\ q.value >= 0 /\ q.value <= MAX_SEQ

ParseArgs ==
  /\ pc = "start"
  /\ \E n \in Argcs, t \in TimeoutArgs, q \in SeqArgs :
       /\ argc' = n
       /\ IF n < 3 \/ n > 4
            THEN /\ Return(RetUsage)
                 /\ UNCHANGED << timeout_ms, icmp_seq_value >>
          ELSE IF ~TimeoutOk(t)
            THEN /\ Return(RetBadTimeout)
                 /\ UNCHANGED << timeout_ms, icmp_seq_value >>
          ELSE IF n = 4 /\ ~SeqOk(q)
            THEN /\ Return(RetBadSeq)
                 /\ timeout_ms' = t.value
                 /\ UNCHANGED icmp_seq_value
          ELSE /\ pc' = "resolve"
               /\ timeout_ms' = t.value
               /\ icmp_seq_value' = IF n = 4 THEN q.value ELSE 1
               /\ UNCHANGED << exit_code, cause, stderr, sock, closes, badUse, res, frees >>
  /\ UNCHANGED << ckVars, pid, dest_addr, stdout, packet, sends, timeVars, expVars,
                  reply_ttl, select_result, dg, envVars >>

(* ---- getaddrinfo(), lines 98-109 ---- *)
Resolve ==
  /\ pc = "resolve"
  /\ \/ /\ Return(RetResolve)
        /\ UNCHANGED dest_addr
     \/ /\ \E a \in {TargetAddr} :
             dest_addr' = a
        /\ res' = "held"
        /\ pc' = "socket"
        /\ UNCHANGED << exit_code, cause, stderr, sock, closes, badUse, frees >>
  /\ UNCHANGED << ckVars, argVars, stdout, packet, sends, timeVars, expVars,
                  reply_ttl, select_result, dg, envVars >>

(* ---- socket(), lines 111-118 ---- *)
CreateSocket ==
  /\ pc = "socket"
  /\ \/ Return(RetSocket)
     \/ /\ sock' = "open"
        /\ pc' = "connect"
        /\ UNCHANGED << exit_code, cause, stderr, closes, badUse, res, frees >>
  /\ UNCHANGED << ckVars, argVars, dest_addr, stdout, packet, sends, timeVars, expVars,
                  reply_ttl, select_result, dg, envVars >>

(* ---- connect(), lines 120-128 ---- *)
Connect ==
  /\ pc = "connect"
  /\ \/ Return(RetConnect)
     \/ /\ UseSocket
        /\ pc' = "setsockopt"
        /\ UNCHANGED << exit_code, cause, stderr, sock, closes, res, frees >>
  /\ UNCHANGED << ckVars, argVars, dest_addr, stdout, packet, sends, timeVars, expVars,
                  reply_ttl, select_result, dg, envVars >>

(* ---- checksum(), lines 34-49.  A buffer is a sequence of bytes; an      *)
(* ---- unsigned short is loaded and stored low byte first; sum is an        *)
(* ---- unsigned int (32 bits), result an unsigned short (16 bits).  A      *)
(* ---- buffer of at most PACKET_SIZE bytes sums to less than 2^22, so the  *)
(* ---- 32-bit sum never wraps and is kept as a plain integer                *)
LoadWord(b, i) == b[i] + 256 * b[i + 1]

RECURSIVE SumWords(_, _, _, _)
(* the for loop of lines 39-41, from byte index i with len bytes left *)
SumWords(b, i, len, sum) ==
  IF len > 1 THEN SumWords(b, i + 2, len - 2, sum + LoadWord(b, i))
  ELSE IF len = 1 THEN sum + b[i] * 256
  ELSE sum

ChecksumNoComplement(b, len) ==
  LET s0 == SumWords(b, 1, len, 0)
      s1 == (s0 \div 65536) + (s0 % 65536)
      s2 == s1 + (s1 \div 65536)
  IN  s2 % 65536

Checksum(b, len) ==
  LET s0 == SumWords(b, 1, len, 0)
      s1 == (s0 \div 65536) + (s0 % 65536)
      s2 == s1 + (s1 \div 65536)
  IN  65535 - (s2 % 65536)

(* an unsigned short stored at byte offset off of b *)
StoreWord(b, off, w) ==
  [i \in 1..Len(b) |->
     IF i = off + 1 THEN w % 256 ELSE IF i = off + 2 THEN w \div 256 ELSE b[i]]

(* ---- the Echo Request, lines 145-155: 64 bytes, all zero but the header *)
RequestBytes(ty, co, ck, id, sq) ==
  StoreWord(StoreWord(StoreWord(
    [i \in 1..PACKET_SIZE |-> IF i = 1 THEN ty ELSE IF i = 2 THEN co ELSE 0],
    2, ck), 4, id), 6, sq)

BuildRequest(p, q) ==
  [icmp_type |-> ICMP_ECHO, icmp_code |-> 0,
   icmp_cksum |-> Checksum(RequestBytes(ICMP_ECHO, 0, 0, Htons(p % 65536), Htons(q)),
                           PACKET_SIZE),
   icmp_id |-> Htons(p % 65536), icmp_seq |-> Htons(q)]

(* ---- the two setsockopt() calls and the request, lines 130-155 ---- *)
SetSockOpts ==
  /\ pc = "setsockopt"
  /\ \E rcvbufFails \in BOOLEAN, filterFails \in BOOLEAN :
       stderr' = stderr
                   \o (IF rcvbufFails THEN << "warning: SO_RCVBUF" >> ELSE << >>)
                   \o (IF filterFails THEN << "warning: ICMP_FILTER" >> ELSE << >>)
  /\ UseSocket
  /\ packet' = BuildRequest(pid, icmp_seq_value)
  /\ pc' = "send"
  /\ UNCHANGED << ckVars, argVars, dest_addr, res, frees, sock, closes, stdout, sends,
                  timeVars, expVars, reply_ttl, select_result, dg, exit_code,
                  cause, envVars >>

(* ---- gettimeofday(&start_time), sendto(), deadline and expected values, *)
(* ---- lines 157-184                                                       *)
Send ==
  /\ pc = "send"
  /\ \E c \in StartReadings :
       /\ ReadClockAs(c)
       /\ start_time' = c
       /\ sends' = sends + 1
       /\ \/ /\ Return(RetSend)
             /\ UNCHANGED << deadline, expVars, reply_ttl >>
          \/ /\ UseSocket
             /\ deadline' = ComputeDeadline(c, timeout_ms)
             /\ expected_id' = pid % 65536
             /\ expected_seq' = icmp_seq_value
             /\ expected_addr' = dest_addr
             /\ reply_ttl' = 0 - 1
             /\ pc' = "loop"
             /\ UNCHANGED << exit_code, cause, stderr, sock, closes, res, frees >>
  /\ UNCHANGED << ckVars, argVars, dest_addr, stdout, packet, now, remaining, end_time,
                  select_result, dg >>

(* ---- validation of one received datagram, lines 243-307: the reason it   *)
(* ---- is skipped (continue), or "match"                                   *)
ValidateReplyNoCode(d, eid, eseq, eaddr) ==
  LET ip_header_len == d.ip_hl * 4
  IN  IF d.recv_len < 20 THEN "short"
      ELSE IF ip_header_len < 20 \/ ip_header_len > 60 THEN "bad_ip_header_len"
      ELSE IF d.ip_v # 4 THEN "wrong_ip_version"
      ELSE IF d.ip_p # IPPROTO_ICMP THEN "not_icmp"
      ELSE IF d.recv_len < ip_header_len + ICMP_HEADER_SIZE THEN "short_icmp"
      ELSE IF d.icmp_type # ICMP_ECHOREPLY THEN "not_echo_reply"
      ELSE IF Ntohs(d.icmp_id) # eid THEN "id_mismatch"
      ELSE IF Ntohs(d.icmp_seq) # eseq THEN "seq_mismatch"
      ELSE IF d.src # eaddr THEN "source_mismatch"
      ELSE "match"

ValidateReplyNoLength(d, eid, eseq, eaddr) ==
  LET ip_header_len == d.ip_hl * 4
  IN  IF ip_header_len < 20 \/ ip_header_len > 60 THEN "bad_ip_header_len"
      ELSE IF d.ip_v # 4 THEN "wrong_ip_version"
      ELSE IF d.ip_p # IPPROTO_ICMP THEN "not_icmp"
      ELSE IF d.icmp_type # ICMP_ECHOREPLY THEN "not_echo_reply"
      ELSE IF d.icmp_code # 0 THEN "bad_code"
      ELSE IF Ntohs(d.icmp_id) # eid THEN "id_mismatch"
      ELSE IF Ntohs(d.icmp_seq) # eseq THEN "seq_mismatch"
      ELSE IF d.src # eaddr THEN "source_mismatch"
      ELSE "match"

ValidateReplyNoIcmpLength(d, eid, eseq, eaddr) ==
  LET ip_header_len == d.ip_hl * 4
  IN  IF d.recv_len < 20 THEN "short"
      ELSE IF ip_header_len < 20 \/ ip_header_len > 60 THEN "bad_ip_header_len"
      ELSE IF d.ip_v # 4 THEN "wrong_ip_version"
      ELSE IF d.ip_p # IPPROTO_ICMP THEN "not_icmp"
      ELSE IF d.icmp_type # ICMP_ECHOREPLY THEN "not_echo_reply"
      ELSE IF d.icmp_code # 0 THEN "bad_code"
      ELSE IF Ntohs(d.icmp_id) # eid THEN "id_mismatch"
      ELSE IF Ntohs(d.icmp_seq) # eseq THEN "seq_mismatch"
      ELSE IF d.src # eaddr THEN "source_mismatch"
      ELSE "match"

ValidateReply(d, eid, eseq, eaddr) ==
  LET ip_header_len == d.ip_hl * 4
  IN  IF d.recv_len < 20 THEN "short"
      ELSE IF ip_header_len < 20 \/ ip_header_len > 60 THEN "bad_ip_header_len"
      ELSE IF d.ip_v # 4 THEN "wrong_ip_version"
      ELSE IF d.ip_p # IPPROTO_ICMP THEN "not_icmp"
      ELSE IF d.recv_len < ip_header_len + ICMP_HEADER_SIZE THEN "short_icmp"
      ELSE IF d.icmp_type # ICMP_ECHOREPLY THEN "not_echo_reply"
      ELSE IF d.icmp_code # 0 THEN "bad_code"
      ELSE IF Ntohs(d.icmp_id) # eid THEN "id_mismatch"
      ELSE IF Ntohs(d.icmp_seq) # eseq THEN "seq_mismatch"
      ELSE IF d.src # eaddr THEN "source_mismatch"
      ELSE "match"

(* ---- the reply checks of the simpler variant, src/ping_helper.c lines
   194-233: no test of recv_len against 20, of ip_v, of ip_p or of icmp_code;
   the sequence number expected is the constant 1 ---- *)
SIMPLE_EXPECTED_SEQ == 1

ValidateReplySimpleNoLength(d, eid, eseq, eaddr) ==
  LET ip_header_len == d.ip_hl * 4
  IN  IF ip_header_len < 20 \/ ip_header_len > 60 THEN "bad_ip_header_len"
      ELSE IF d.icmp_type # ICMP_ECHOREPLY THEN "not_echo_reply"
      ELSE IF Ntohs(d.icmp_id) # eid THEN "id_mismatch"
      ELSE IF Ntohs(d.icmp_seq) # eseq THEN "seq_mismatch"
      ELSE IF d.src # eaddr THEN "source_mismatch"
      ELSE "match"

ValidateReplySimple(d, eid, eseq, eaddr) ==
  LET ip_header_len == d.ip_hl * 4
  IN  IF ip_header_len < 20 \/ ip_header_len > 60 THEN "bad_ip_header_len"
      ELSE IF d.recv_len < ip_header_len + ICMP_HEADER_SIZE THEN "short_icmp"
      ELSE IF d.icmp_type # ICMP_ECHOREPLY THEN "not_echo_reply"
      ELSE IF Ntohs(d.icmp_id) # eid THEN "id_mismatch"
      ELSE IF Ntohs(d.icmp_seq) # eseq THEN "seq_mismatch"
      ELSE IF d.src # eaddr THEN "source_mismatch"
      ELSE "match"

(* The simpler variant reads ip_hl from byte 0 of recv_buf before looking at
   recv_len (src/ping_helper.c line 196): when no byte arrived, that byte is
   whatever the buffer held, so the header length is any 4-bit value. *)
HeaderLensSeenBySimple(d) ==
  IF d.recv_len = 0 THEN 0..15 ELSE {d.ip_hl}

(* The offsets into recv_buf that lines 243-311 dereference for a datagram
   whose validation ended with the given verdict: ip_hl and ip_v are the two
   halves of byte 0, ip_ttl is byte 8, ip_p byte 9; the ICMP header starts at
   ip_header_len with type, code, (checksum,) id and seq at +0, +1, +4..5 and
   +6..7.  recv_addr, compared at line 304, is not part of the buffer. *)
BytesRead(d, verdict) ==
  LET h == d.ip_hl * 4
      upTo == [ short             |-> {},
                bad_ip_header_len |-> {0},
                wrong_ip_version  |-> {0},
                not_icmp          |-> {0, 9},
                short_icmp        |-> {0, 9},
                not_echo_reply    |-> {0, 9, h},
                bad_code          |-> {0, 9, h, h + 1},
                id_mismatch       |-> {0, 9, h, h + 1, h + 4, h + 5},
                seq_mismatch      |-> {0, 9, h, h + 1, h + 4, h + 5, h + 6, h + 7},
                source_mismatch   |-> {0, 9, h, h + 1, h + 4, h + 5, h + 6, h + 7},
                match             |-> {0, 8, 9, h, h + 1, h + 4, h + 5, h + 6, h + 7} ]
  IN  upTo[verdict]

(* RTT of lines 316-317, in microseconds (thousandths of rtt_ms) *)
Rtt(s, e) ==
  (e.tv_sec - s.tv_sec) * 1000000 + (e.tv_usec - s.tv_usec)

(* ---- datagrams the network may deliver to a probe that sent request p   *)
(* ---- to address a: every combination of the field values below that     *)
(* ---- departs from an answer to p in at most MaxDeviations fields        *)
GoodLenHl == { << 28, 5 >>, << 68, 15 >> }
BadLenHl == { << 0, 5 >>, << 19, 5 >>, << 27, 5 >>, << 28, 4 >>, << 67, 15 >>, << 1024, 0 >> }
Ttls == {64, 255}
WireIds(p) == { p.icmp_id, Ntohs(p.icmp_id), Htons((Ntohs(p.icmp_id) + 1) % 65536) }
WireSeqs(p) == { p.icmp_seq, Ntohs(p.icmp_seq), Htons((Ntohs(p.icmp_seq) + 1) % 65536) }

DgFields == {"lenhl", "ip_v", "ip_p", "icmp_type", "icmp_code", "icmp_id", "icmp_seq", "src"}

(* the values of field f that agree (dev = FALSE) or disagree with an answer *)
FieldValues(f, dev, p, a) ==
  CASE f = "lenhl" -> IF dev THEN BadLenHl ELSE GoodLenHl
    [] f = "ip_v" -> IF dev THEN {6} ELSE {4}
    [] f = "ip_p" -> IF dev THEN {17} ELSE {IPPROTO_ICMP}
    [] f = "icmp_type" -> IF dev THEN {ICMP_ECHO} ELSE {ICMP_ECHOREPLY}
    [] f = "icmp_code" -> IF dev THEN {1} ELSE {0}
    [] f = "icmp_id" -> IF dev THEN WireIds(p) \ {p.icmp_id} ELSE {p.icmp_id}
    [] f = "icmp_seq" -> IF dev THEN WireSeqs(p) \ {p.icmp_seq} ELSE {p.icmp_seq}
    [] f = "src" -> IF dev THEN Addrs \ {a} ELSE {a}

Datagrams(p, a) ==
  UNION { { [recv_len |-> lh[1], ip_hl |-> lh[2], ip_v |-> v, ip_p |-> pr,
             ip_ttl |-> ttl, icmp_type |-> ty, icmp_code |-> co,
             icmp_id |-> id, icmp_seq |-> sq, src |-> sr] :
              lh \in FieldValues("lenhl", "lenhl" \in D, p, a),
              v \in FieldValues("ip_v", "ip_v" \in D, p, a),
              pr \in FieldValues("ip_p", "ip_p" \in D, p, a),
              ttl \in Ttls,
              ty \in FieldValues("icmp_type", "icmp_type" \in D, p, a),
              co \in FieldValues("icmp_code", "icmp_code" \in D, p, a),
              id \in FieldValues("icmp_id", "icmp_id" \in D, p, a),
              sq \in FieldValues("icmp_seq", "icmp_seq" \in D, p, a),
              sr \in FieldValues("src", "src" \in D, p, a) } :
          D \in { X \in SUBSET DgFields : Cardinality(X) <= MaxDeviations } }

(* ---- top of the loop: gettimeofday(&now), remaining, expiry check,      *)
(* ---- lines 187-207                                                       *)
LoopTop ==
  /\ pc = "loop"
  /\ \E c \in Readings :
       /\ ReadClockAs(c)
       /\ now' = c
       /\ remaining' = ComputeRemaining(deadline, c)
       /\ dg' = NoDg
       /\ IF IsExpired(ComputeRemaining(deadline, c))
            THEN Return(RetExpired)
            ELSE /\ pc' = "select"
                 /\ UNCHANGED << exit_code, cause, stderr, sock, closes, badUse, res, frees >>
  /\ UNCHANGED << ckVars, argVars, dest_addr, stdout, packet, sends, start_time,
                  deadline, end_time, expVars, reply_ttl, select_result >>

(* ---- select() with the remaining time, lines 209-227 ---- *)
Select ==
  /\ pc = "select"
  /\ \/ /\ select_result' = 0 - 1
        /\ Return(RetSelectError)
        /\ UNCHANGED envVars
     \/ /\ select_result' = 0
        /\ clock' = TvAdd(clock, remaining)
        /\ waited' = IF monotone THEN waited + Micros(remaining) ELSE 0
        /\ Return(RetSelectTimeout)
        /\ UNCHANGED monotone
     \/ /\ select_result' = 1
        /\ \E c \in Readings :
             /\ TvLE(clock, c)
             /\ TvLE(c, TvAdd(clock, remaining))
             /\ clock' = c
             /\ waited' = IF monotone THEN waited + (Micros(c) - Micros(clock)) ELSE 0
        /\ UseSocket
        /\ pc' = "recv"
        /\ UNCHANGED << exit_code, cause, stderr, sock, closes, res, frees, monotone >>
  /\ UNCHANGED << ckVars, argVars, dest_addr, stdout, packet, sends, timeVars, expVars,
                  reply_ttl, dg >>

(* ---- recvfrom() failed, lines 236-241 ---- *)
ReceiveError ==
  /\ Return(RetRecv)
  /\ UNCHANGED << dg, end_time, reply_ttl, stdout, sends, envVars >>

DiscardResend(d) ==
  /\ dg' = d
  /\ UseSocket
  /\ pc' = "loop"
  /\ sends' = sends + 1
  /\ UNCHANGED << exit_code, cause, stderr, sock, closes, res, frees, end_time,
                  reply_ttl, stdout, envVars >>

DiscardRecordsTtl(d) ==
  /\ dg' = d
  /\ UseSocket
  /\ pc' = "loop"
  /\ reply_ttl' = d.ip_ttl
  /\ UNCHANGED << exit_code, cause, stderr, sock, closes, res, frees, end_time,
                  stdout, sends, envVars >>

DiscardLogs(d) ==
  /\ dg' = d
  /\ UseSocket
  /\ pc' = "loop"
  /\ stderr' = Append(stderr, "warning: ignoring packet")
  /\ UNCHANGED << exit_code, cause, sock, closes, res, frees, end_time,
                  reply_ttl, stdout, sends, envVars >>

(* ---- a datagram that is skipped: continue, lines 243-307 ---- *)
Discard(d) ==
  /\ dg' = d
  /\ UseSocket
  /\ pc' = "loop"
  /\ UNCHANGED << exit_code, cause, stderr, sock, closes, res, frees, end_time,
                  reply_ttl, stdout, sends, envVars >>

MatchedSilent(d) ==
  /\ dg' = d
  /\ \E c \in Readings :
       /\ ReadClockAs(c)
       /\ end_time' = c
  /\ reply_ttl' = d.ip_ttl
  /\ Return(RetMatched)
  /\ UNCHANGED << sends, stdout >>

(* ---- the matching reply: end time, TTL, result line, lines 309-324 ---- *)
Matched(d) ==
  /\ dg' = d
  /\ \E c \in Readings :
       /\ ReadClockAs(c)
       /\ end_time' = c
       /\ stdout' = Append(stdout, [rtt_us |-> Rtt(start_time, c), ttl |-> d.ip_ttl])
  /\ reply_ttl' = d.ip_ttl
  /\ Return(RetMatched)
  /\ UNCHANGED sends

(* ---- recvfrom() and what follows it in the iteration, lines 229-313 ---- *)
Receive ==
  /\ pc = "recv"
  /\ \/ ReceiveError
     \/ \E d \in Datagrams(packet, dest_addr) :
          IF ValidateReply(d, expected_id, expected_seq, expected_addr) = "match"
            THEN Matched(d)
            ELSE Discard(d)
  /\ UNCHANGED << ckVars, argVars, dest_addr, packet, start_time, deadline, now,
                  remaining, expVars, select_result >>

Next ==
  \/ ParseArgs
  \/ Resolve
  \/ CreateSocket
  \/ Connect
  \/ SetSockOpts
  \/ Send
  \/ LoopTop
  \/ Select
  \/ Receive

Spec == Init /\ [][Next]_vars

(* ---- scheduling: main() takes its next step whenever it has one, and the *)
(* ---- clock keeps advancing: again and again gettimeofday() at the top of *)
(* ---- the loop returns more than the clock showed before                  *)
ClockAdvances ==
  /\ LoopTop
  /\ ~TvLE(clock', clock)

LiveSpec == Init /\ [][Next]_vars /\ WF_vars(Next) /\ SF_vars(ClockAdvances)

(* ======================================================================= *)
(* checksum() on its own: a buffer is chosen, its checksum field is zeroed, *)
(* checksum() is computed, stored into the field (as lines 154-155 do) and  *)
(* computed again over the filled buffer                                    *)
(* ======================================================================= *)
Bytes == {0, 1, 255}
CkIds == {0, 1, 4660, 65535}
CkSeqs == {0, 1, 513, 65535}

RECURSIVE BufsOfLen(_)
BufsOfLen(n) ==
  IF n = 0 THEN { << >> }
  ELSE { Append(b, x) : b \in BufsOfLen(n - 1), x \in Bytes }

CkInit ==
  /\ MainInit
  /\ ckpc = "input"
  /\ \/ /\ \E n \in 2..MaxBufLen : buf \in BufsOfLen(n)
        /\ ckoff \in { o \in 0..(MaxBufLen - 2) : o % 2 = 0 /\ o + 2 <= Len(buf) }
     \/ /\ \E id \in CkIds, sq \in CkSeqs :
             buf = RequestBytes(ICMP_ECHO, 0, 255 + 256, Htons(id), Htons(sq))
        /\ ckoff = 2
  /\ cksum = 0
  /\ ckverify = 0

mainVars ==
  << pc, argc, timeout_ms, icmp_seq_value, pid, dest_addr, res, frees, sock,
     closes, badUse, stderr, stdout, packet, sends, start_time, deadline, now,
     remaining, end_time, expected_id, expected_seq, expected_addr, reply_ttl,
     select_result, dg, exit_code, cause, clock, monotone, waited >>

(* icmp_cksum = 0, line 154 *)
CkZero ==
  /\ ckpc = "input"
  /\ buf' = StoreWord(buf, ckoff, 0)
  /\ ckpc' = "zeroed"
  /\ UNCHANGED << ckoff, cksum, ckverify, mainVars >>

(* checksum(buf, len), the right-hand side of line 155 *)
CkCompute ==
  /\ ckpc = "zeroed"
  /\ cksum' = Checksum(buf, Len(buf))
  /\ ckpc' = "computed"
  /\ UNCHANGED << buf, ckoff, ckverify, mainVars >>

(* icmp_cksum = the value, line 155 *)
CkApply ==
  /\ ckpc = "computed"
  /\ buf' = StoreWord(buf, ckoff, cksum)
  /\ ckpc' = "applied"
  /\ UNCHANGED << ckoff, cksum, ckverify, mainVars >>

(* checksum() over the buffer with its checksum field filled *)
CkVerify ==
  /\ ckpc = "applied"
  /\ ckverify' = Checksum(buf, Len(buf))
  /\ ckpc' = "verified"
  /\ UNCHANGED << buf, ckoff, cksum, mainVars >>

CkNext ==
  \/ CkZero
  \/ CkCompute
  \/ CkApply
  \/ CkVerify

CkSpec == CkInit /\ [][CkNext]_vars

(* ---- the deadline arithmetic on its own, lines 171-207 ----
   ComputeDeadline, ComputeRemaining and IsExpired applied to start times,
   timeouts and clock readings around the carry, the borrow and the deadline
   itself; the state is that of the process after gettimeofday(&start_time). *)
TvTimeouts == {1, 999, 1000, 1001, 1500, 59999, MAX_TIMEOUT_MS}
TvUSecs == {0, 1, 999, 1000, 500000, 999000, 999999}
TvStarts == [tv_sec : 0..2, tv_usec : TvUSecs]
TvNows(dl) ==
  [tv_sec : {dl.tv_sec - 1, dl.tv_sec, dl.tv_sec + 1} \cap Nat,
   tv_usec : {0, 1, 999999, dl.tv_usec - 1, dl.tv_usec, dl.tv_usec + 1}
               \cap (0..(USEC_PER_SEC - 1))]

TvInit ==
  /\ pc = "tv_start"
  /\ argc = 3
  /\ timeout_ms \in TvTimeouts
  /\ icmp_seq_value = 1
  /\ pid \in Pids
  /\ dest_addr = TargetAddr
  /\ res = "held"
  /\ frees = 0
  /\ sock = "open"
  /\ closes = 0
  /\ badUse = FALSE
  /\ stderr = << >>
  /\ stdout = << >>
  /\ packet = BuildRequest(pid, 1)
  /\ sends = 0
  /\ start_time \in TvStarts
  /\ deadline = NoTv
  /\ now = NoTv
  /\ remaining = NoTv
  /\ end_time = NoTv
  /\ expected_id = 0
  /\ expected_seq = 0
  /\ expected_addr = "none"
  /\ reply_ttl = 0 - 1
  /\ select_result = 0 - 2
  /\ dg = NoDg
  /\ exit_code = NoExit
  /\ cause = "none"
  /\ clock = start_time
  /\ monotone = TRUE
  /\ waited = 0
  /\ ckpc = "idle"
  /\ buf = << >>
  /\ ckoff = 0
  /\ cksum = 0
  /\ ckverify = 0

tvFrame ==
  << argc, timeout_ms, icmp_seq_value, pid, dest_addr, res, frees, sock,
     closes, badUse, stderr, stdout, packet, sends, start_time, end_time,
     expected_id, expected_seq, expected_addr, reply_ttl, select_result, dg,
     exit_code, cause, monotone, waited, ckVars >>

(* deadline = start_time + timeout, lines 171-178 *)
TvDeadline ==
  /\ pc = "tv_start"
  /\ deadline' = ComputeDeadline(start_time, timeout_ms)
  /\ pc' = "tv_loop"
  /\ UNCHANGED << now, remaining, clock, tvFrame >>

(* one pass of lines 188-207: read now, compute remaining, test for expiry *)
TvLoopTop ==
  /\ pc = "tv_loop"
  /\ \E c \in TvNows(deadline) :
       /\ clock' = c
       /\ now' = c
       /\ remaining' = ComputeRemaining(deadline, c)
       /\ pc' = IF IsExpired(ComputeRemaining(deadline, c))
                  THEN "tv_expired" ELSE "tv_armed"
  /\ UNCHANGED << deadline, tvFrame >>

TvNext ==
  \/ TvDeadline
  \/ TvLoopTop

TvSpec == TvInit /\ [][TvNext]_vars


(* ======================================================================= *)
(* Properties                                                              *)
(* ======================================================================= *)

(* a step in which recvfrom() delivered a datagram (dg' is that datagram) *)
Delivered == pc = "recv" /\ dg' # NoDg

PassesIpValidation(d) ==
  /\ d.recv_len >= 20
  /\ d.ip_hl * 4 >= 20
  /\ d.ip_hl * 4 <= 60
  /\ d.ip_v = 4
  /\ d.ip_p = IPPROTO_ICMP
  /\ d.recv_len >= d.ip_hl * 4 + ICMP_HEADER_SIZE

(* d answers the request that was sent: the identifier and the sequence are
   compared on the wire with the request, and in host order with pid & 0xFFFF
   and the requested sequence *)
AnswersRequest(d) ==
  /\ PassesIpValidation(d)
  /\ d.icmp_type = ICMP_ECHOREPLY
  /\ d.icmp_code = 0
  /\ d.icmp_id = packet.icmp_id
  /\ Ntohs(d.icmp_id) = pid % 65536
  /\ d.icmp_seq = packet.icmp_seq
  /\ Ntohs(d.icmp_seq) = icmp_seq_value
  /\ d.src = dest_addr

(* C1: a delivered datagram ends the probe as Matched (exit code 0) if and
   only if it passes IP validation and is an Echo Reply with code 0, the
   identifier and sequence of the request and the target as source; any
   other datagram is discarded and the probe keeps waiting. *)
C1_MatchedIffAnswer ==
  [][Delivered =>
       /\ (pc' = "done" /\ exit_code' = 0) <=> AnswersRequest(dg')
       /\ (pc' = "loop" /\ exit_code' = NoExit) <=> ~AnswersRequest(dg')]_vars

(* C1 witness: the probe has matched after one datagram answered the request *)
C1_Witness ==
  pc = "done" /\ exit_code = 0 /\ AnswersRequest(dg) /\ dg.ip_hl = 15

(* one of the reasons the claim lists for discarding a datagram *)
MalformedOrNonMatching(d) ==
  \/ d.recv_len < 20
  \/ d.ip_hl * 4 < 20
  \/ d.ip_hl * 4 > 60
  \/ d.ip_v # 4
  \/ d.ip_p # IPPROTO_ICMP
  \/ d.recv_len < d.ip_hl * 4 + ICMP_HEADER_SIZE
  \/ d.icmp_type # ICMP_ECHOREPLY
  \/ d.icmp_code # 0
  \/ Ntohs(d.icmp_id) # pid % 65536
  \/ Ntohs(d.icmp_seq) # icmp_seq_value
  \/ d.src # dest_addr

(* C2: a malformed or non-matching datagram never ends the probe: nothing is
   returned, nothing is written to the error stream, the socket stays open and
   the loop is re-entered; the probe only ever ends as Matched, TimedOut or
   Failed. *)
C2_DiscardIsNotAnError ==
  /\ [][(Delivered /\ MalformedOrNonMatching(dg')) =>
          /\ pc' = "loop"
          /\ exit_code' = NoExit
          /\ cause' = "none"
          /\ stderr' = stderr
          /\ sock' = "open"]_vars
  /\ [](pc = "done" => exit_code \in 0..8)

(* C2 witness: a datagram shorter than an IP header was discarded and the
   probe is back at the top of the loop *)
C2_Witness ==
  pc = "loop" /\ dg # NoDg /\ dg.recv_len < 20 /\ exit_code = NoExit

(* C3: TimedOut (exit code 7) is reported only from a clock reading
   now >= start_time + T, or from a select() that was armed with exactly
   deadline - now and returned 0; under a non-decreasing clock the time
   elapsed since start_time is then at least T. *)
C3_NoEarlyTimeout ==
  exit_code = 7 =>
    /\ \/ /\ cause = "expired"
          /\ Micros(now) >= Micros(start_time) + timeout_ms * 1000
       \/ /\ cause = "select_timeout"
          /\ select_result = 0
          /\ Micros(remaining) = Micros(start_time) + timeout_ms * 1000 - Micros(now)
          /\ Micros(remaining) > 0
    /\ monotone => Micros(clock) - Micros(start_time) >= timeout_ms * 1000

(* C3 witness: the probe timed out in select() after earlier waits were cut
   short by datagrams, the deadline having a microsecond carry *)
C3_Witness ==
  /\ exit_code = 7
  /\ cause = "select_timeout"
  /\ monotone
  /\ waited > Micros(remaining)
  /\ start_time.tv_usec + (timeout_ms % 1000) * 1000 >= USEC_PER_SEC

(* C4: with a clock that keeps advancing and never steps back, no matching
   reply and no failing socket call, the probe eventually ends as TimedOut,
   however many datagrams keep the socket readable. *)
C4_EventuallyTimedOut ==
  ([]monotone /\ [](cause \in {"none", "expired", "select_timeout"}))
    => <>(exit_code = 7)

(* C4 witness: the probe timed out at the top of the loop after a datagram
   had been discarded *)
C4_Witness ==
  exit_code = 7 /\ cause = "expired" /\ monotone /\ select_result = 1

(* C5: the deadline is start_time + T and never changes; every wait is armed
   with exactly deadline - now for the reading just taken; under a
   non-decreasing clock the armed durations never grow from one iteration to
   the next, and the time spent waiting never exceeds T. *)
C5_DeadlineFixedWaitShrinks ==
  /\ [](deadline # NoTv =>
          /\ Micros(deadline) = Micros(start_time) + timeout_ms * 1000
          /\ deadline.tv_usec \in 0..(USEC_PER_SEC - 1))
  /\ [][deadline # NoTv => deadline' = deadline]_vars
  /\ [](pc = "select" => Micros(remaining) = Micros(deadline) - Micros(now))
  /\ [][(pc = "loop" /\ pc' = "select" /\ remaining # NoTv /\ monotone')
          => Micros(remaining') <= Micros(remaining)]_vars
  /\ [](monotone => waited <= timeout_ms * 1000)

(* C5 witness: a wait was re-armed, after a discarded datagram and a borrow of
   microseconds, with less than the requested timeout *)
C5_Witness ==
  /\ pc = "select"
  /\ monotone
  /\ select_result = 1
  /\ waited > 0
  /\ deadline.tv_usec < now.tv_usec
  /\ Micros(remaining) < timeout_ms * 1000

(* C6: whatever the clock readings, the duration handed to select() is never
   negative and never larger than the requested timeout T. *)
C6_WaitWithinTimeout ==
  pc = "select" =>
    /\ Micros(remaining) >= 0
    /\ remaining.tv_sec >= 0
    /\ remaining.tv_usec >= 0
    /\ Micros(remaining) <= timeout_ms * 1000

(* C7: the socket is closed exactly once on every path on which it was
   opened and never otherwise, the address list is freed exactly once on
   every path after a successful resolution, and no call is made on the
   socket once it is closed. *)
C7_ReleasedExactlyOnce ==
  /\ ~badUse
  /\ closes <= 1
  /\ frees <= 1
  /\ (sock = "closed") = (closes = 1)
  /\ (res = "freed") = (frees = 1)
  /\ sock = "none" => closes = 0
  /\ res = "none" => frees = 0
  /\ pc = "done" => (sock # "open" /\ res # "held")
  /\ pc # "done" => (closes = 0 /\ frees = 0)
  /\ cause \in {"connect", "send", "expired", "select_error", "select_timeout",
                "recv", "matched"} => (closes = 1 /\ frees = 1)
  /\ cause = "socket" => (closes = 0 /\ frees = 1)
  /\ cause \in {"usage", "bad_timeout", "bad_seq", "resolve"} => (closes = 0 /\ frees = 0)

(* C7 witness: connect() failed and the socket and the address list were
   released *)
C7_Witness ==
  pc = "done" /\ cause = "connect" /\ closes = 1 /\ frees = 1

(* the failure kind of each return statement, as the claim names the kinds *)
FailureKind(c) ==
  CASE c \in {"usage", "bad_timeout", "bad_seq"} -> "bad arguments"
    [] c = "resolve" -> "resolution failure"
    [] c = "socket" -> "socket-create failure"
    [] c = "connect" -> "connect failure"
    [] c = "send" -> "send failure"
    [] c = "select_error" -> "wait failure"
    [] c = "recv" -> "receive failure"
    [] c \in {"expired", "select_timeout"} -> "timeout"
    [] c = "matched" -> "matched"
    [] OTHER -> "running"

(* the one outcome an exit code stands for, if the exit code alone is to
   identify it *)
KindOfExitCode(e) ==
  CASE e = 0 -> "matched"
    [] e \in {1, 2} -> "bad arguments"
    [] e = 3 -> "resolution failure"
    [] e = 4 -> "socket-create failure"
    [] e = 5 -> "send failure"
    [] e = 6 -> "wait failure"
    [] e = 7 -> "timeout"
    [] e = 8 -> "receive failure"
    [] OTHER -> "running"

(* C8: the exit code alone identifies the outcome: every failure kind ends
   the process with a code no other cause produces, socket-create failure in
   particular, and 0 is returned only in Matched. *)
C8_ExitCodeIdentifiesKind ==
  pc = "done" => FailureKind(cause) = KindOfExitCode(exit_code)

(* messages on the error stream that report a failure (not a warning) *)
ErrorMessages ==
  { "usage", "error: timeout_ms", "error: icmp_seq", "error: cannot resolve host",
    "error: cannot create raw socket", "error: connect failed",
    "error: sendto failed", "error: select failed", "error: recvfrom failed" }

(* C9: every failure outcome, timeout included, has written a message to the
   error stream by the time the process exits. *)
C9_FailureWritesMessage ==
  (pc = "done" /\ exit_code # 0) =>
    \E i \in 1..Len(stderr) : stderr[i] \in ErrorMessages

(* C10: the request is sent at most once, by the send step, before any wait
   or receive; the loop runs only after exactly one send; a probe that got as
   far as waiting ends with exactly one request sent; once main() has
   returned nothing more is sent or done. *)
C10_SingleRequest ==
  /\ [](sends <= 1)
  /\ [](pc \in {"loop", "select", "recv"} => sends = 1)
  /\ [](cause \in {"send", "expired", "select_error", "select_timeout", "recv",
                   "matched"} => sends = 1)
  /\ [][sends' # sends =>
          /\ pc = "send"
          /\ sends = 0
          /\ select_result = 0 - 2
          /\ dg = NoDg]_vars
  /\ [][pc = "done" => (pc' = "done" /\ sends' = sends /\ exit_code' = exit_code)]_vars

(* C10 witness: the probe timed out after a datagram was discarded, with one
   request sent *)
C10_Witness ==
  pc = "done" /\ cause = "expired" /\ select_result = 1 /\ sends = 1

(* C11: a buffer whose checksum field was zeroed, filled with checksum() of
   the buffer and summed again has checksum 0; so has the 64-byte Echo
   Request, whose field the program fills the same way. *)
C11_ChecksumVerifiesToZero ==
  ckpc = "verified" => ckverify = 0

(* C11 witness: the Echo Request for identifier 0x1234 and sequence 513, and
   an odd-length buffer with carries, were filled and summed again *)
C11_Witness ==
  /\ ckpc = "verified"
  /\ ckverify = 0
  /\ cksum # 0
  /\ Len(buf) = PACKET_SIZE
  /\ LoadWord(buf, 5) = Htons(4660)
  /\ LoadWord(buf, 7) = Htons(513)

(* RFC 1071 over the bytes of b: 16-bit words in network order (first byte
   high), an odd final byte padded with a zero low byte, end-around carry,
   one's complement *)
RECURSIVE NetSum(_, _)
NetSum(b, i) ==
  IF i > Len(b) THEN 0
  ELSE b[i] * 256 + (IF i + 1 <= Len(b) THEN b[i + 1] ELSE 0) + NetSum(b, i + 2)

RECURSIVE EndAround(_)
EndAround(x) == IF x < 65536 THEN x ELSE EndAround((x \div 65536) + (x % 65536))

Rfc1071(b) == 65535 - EndAround(NetSum(b, 1))

(* the two bytes a 16-bit value occupies: in network order, and as the
   program stores an unsigned short *)
NetworkBytes(w) == << w \div 256, w % 256 >>
StoredBytes(b, off) == << b[off + 1], b[off + 2] >>

(* C12: for every buffer, of even or odd length, the two bytes checksum()
   puts into the packet are the RFC 1071 checksum of the buffer. *)
C12_ChecksumIsRfc1071 ==
  ckpc = "computed" =>
    StoredBytes(StoreWord(buf, ckoff, cksum), ckoff) = NetworkBytes(Rfc1071(buf))

(* the same for buffers of even length only *)
C12_EvenLengthIsRfc1071 ==
  (ckpc = "computed" /\ Len(buf) % 2 = 0) =>
    StoredBytes(StoreWord(buf, ckoff, cksum), ckoff) = NetworkBytes(Rfc1071(buf))

(* C13: an error of select() ends the probe with exit code 6, a select()
   that returns 0 with exit code 7, an error of recvfrom() with exit code 8,
   and an error of sendto() with exit code 5 before any wait was started;
   a readable socket leads to one recvfrom(); after any of the four endings
   no wait and no receive follows. *)
C13_SocketEventOutcome ==
  /\ [][pc = "select" =>
          /\ select_result' = 0 - 1 => (pc' = "done" /\ exit_code' = 6 /\ cause' = "select_error")
          /\ select_result' = 0 => (pc' = "done" /\ exit_code' = 7 /\ cause' = "select_timeout")
          /\ select_result' = 1 => (pc' = "recv" /\ exit_code' = NoExit)
          /\ select_result' \in {0 - 1, 0, 1}]_vars
  /\ [][(pc = "recv" /\ cause' = "recv") => (pc' = "done" /\ exit_code' = 8 /\ dg' = NoDg)]_vars
  /\ [][(pc = "recv" /\ pc' = "done") => (exit_code' = 8 \/ exit_code' = 0)]_vars
  /\ [](cause = "select_error" => (exit_code = 6 /\ select_result = 0 - 1))
  /\ [](cause = "recv" => (exit_code = 8 /\ select_result = 1))
  /\ [](cause = "send" =>
          (exit_code = 5 /\ select_result = 0 - 2 /\ now = NoTv /\ dg = NoDg))
  /\ [][(exit_code # NoExit /\ exit_code \in {5, 6, 7, 8}) =>
          (UNCHANGED << pc, exit_code, cause, select_result, dg, now >>)]_vars

(* C13 witness: select() failed in a later iteration, after an earlier wait,
   and the probe ended with exit code 6 *)
C13_Witness ==
  pc = "done" /\ cause = "select_error" /\ exit_code = 6 /\ monotone /\ waited > 0

(* C14: for every start time and every timeout of 1 to 60000 ms the deadline
   is start + timeout * 1000 microseconds with tv_usec in 0..999999; for
   every reading now the loop is expired exactly when now >= deadline, and
   otherwise the wait is armed with exactly deadline - now, tv_usec in
   0..999999, tv_sec >= 0, and more than zero in total. *)
C14_DeadlineArithmeticExact ==
  /\ pc \in {"tv_loop", "tv_expired", "tv_armed"} =>
       /\ Micros(deadline) = Micros(start_time) + timeout_ms * 1000
       /\ deadline.tv_usec \in 0..(USEC_PER_SEC - 1)
  /\ pc \in {"tv_expired", "tv_armed"} =>
       (pc = "tv_expired" <=> Micros(now) >= Micros(deadline))
  /\ pc = "tv_armed" =>
       /\ Micros(remaining) = Micros(deadline) - Micros(now)
       /\ remaining.tv_usec \in 0..(USEC_PER_SEC - 1)
       /\ remaining.tv_sec >= 0
       /\ Micros(remaining) > 0

(* C14 witness: the deadline was formed with a carry out of tv_usec from a
   59999 ms timeout, and the wait was armed with a borrow into tv_usec *)
C14_Witness ==
  /\ pc = "tv_armed"
  /\ timeout_ms = 59999
  /\ start_time.tv_usec = 999999
  /\ deadline.tv_sec = start_time.tv_sec + 60
  /\ now.tv_usec > deadline.tv_usec
  /\ Micros(remaining) = 999000

(* C14, second witness: a reading equal to the deadline is expired *)
C14_WitnessExpiredAtDeadline ==
  pc = "tv_expired" /\ now = deadline /\ timeout_ms = 1500

(* C15: a finished run has exactly one outcome, which never changes; the
   result line is on stdout exactly once when the outcome is the match and
   not at all on any other outcome or before the end; it is printed only
   for a datagram that answers the request. *)
C15_ResultLineIffMatched ==
  /\ [](Len(stdout) <= 1)
  /\ [](pc # "done" => (Len(stdout) = 0 /\ exit_code = NoExit /\ cause = "none"))
  /\ [](pc = "done" =>
          /\ exit_code \in 0..8
          /\ cause # "none"
          /\ (Len(stdout) = 1) <=> (exit_code = 0)
          /\ (exit_code = 0) <=> (cause = "matched"))
  /\ [](Len(stdout) = 1 => AnswersRequest(dg))
  /\ [][pc = "done" => (UNCHANGED << pc, exit_code, cause, stdout >>)]_vars

(* C15 witness: the run ended with the match and one result line, after an
   earlier iteration had waited *)
C15_Witness ==
  /\ pc = "done"
  /\ cause = "matched"
  /\ Len(stdout) = 1
  /\ monotone
  /\ waited > Micros(end_time) - Micros(now)

(* C16: on success the reported ttl is the TTL field of the datagram that
   matched, a value in 0..255 and not the placeholder -1; until the match
   reply_ttl stays the placeholder, so no discarded datagram supplies it. *)
C16_TtlOfMatchedDatagram ==
  /\ exit_code = 0 =>
       /\ Len(stdout) = 1
       /\ stdout[1].ttl = dg.ip_ttl
       /\ reply_ttl = dg.ip_ttl
       /\ stdout[1].ttl \in 0..255
       /\ stdout[1].ttl # 0 - 1
       /\ AnswersRequest(dg)
  /\ exit_code # 0 => reply_ttl = 0 - 1

(* C16 witness: success reporting TTL 255 in an iteration after the first,
   that is, after at least one datagram was discarded *)
C16_Witness ==
  /\ exit_code = 0
  /\ stdout[1].ttl = 255
  /\ dg.ip_ttl = 255
  /\ monotone
  /\ waited > Micros(end_time) - Micros(now)
  /\ Micros(now) > Micros(start_time)

(* C17: discarding a datagram leaves the deadline, the start time, the
   expected identifier, sequence number and address, the placeholder TTL
   and both output streams as they were, keeps the socket open, sends
   nothing and ends nothing. *)
C17_DiscardChangesNothing ==
  [][(pc = "recv" /\ pc' = "loop") =>
       /\ UNCHANGED << deadline, start_time, expected_id, expected_seq,
                       expected_addr, reply_ttl, sock, closes, res, frees, sends,
                       stdout, stderr, packet, timeout_ms, end_time, exit_code,
                       cause, now, remaining >>
       /\ reply_ttl' = 0 - 1
       /\ sock' = "open"
       /\ sends' = 1
       /\ exit_code' = NoExit]_vars

(* C17 witness: an Echo Request (not a reply) was received and discarded,
   and the loop is back at its top with the deadline and the socket intact *)
C17_Witness ==
  /\ pc = "loop"
  /\ dg # NoDg
  /\ dg.icmp_type = ICMP_ECHO
  /\ sock = "open"
  /\ reply_ttl = 0 - 1
  /\ deadline = ComputeDeadline(start_time, timeout_ms)

(* C18: on success under a clock that never steps back, end_time lies
   between start_time and start_time + timeout, so the reported round-trip
   time is neither negative nor longer than the timeout. *)
C18_ReplyWithinDeadline ==
  (exit_code = 0 /\ monotone) =>
     /\ Micros(start_time) <= Micros(end_time)
     /\ Micros(end_time) <= Micros(start_time) + timeout_ms * 1000
     /\ stdout[1].rtt_us >= 0
     /\ stdout[1].rtt_us <= timeout_ms * 1000

(* C18, the part that holds: on success under a clock that never steps back
   the round-trip time is not negative, and the wait that delivered the reply
   was armed before the deadline. *)
C18_ReplyNotBeforeStart ==
  (exit_code = 0 /\ monotone) =>
     /\ Micros(start_time) <= Micros(end_time)
     /\ stdout[1].rtt_us >= 0
     /\ Micros(now) < Micros(deadline)

(* C19: for every datagram received, of any length from 0 to the size of
   the receive buffer, every byte that validation reads lies below the
   received length: IP header fields are read only when at least 20 bytes
   arrived, ICMP fields only when ip_header_len + 8 bytes arrived with
   ip_header_len in 20..60. *)
C19_NoReadPastReceivedLength ==
  dg # NoDg =>
    LET verdict == ValidateReply(dg, expected_id, expected_seq, expected_addr)
        reads == BytesRead(dg, verdict)
        h == dg.ip_hl * 4
    IN  /\ dg.recv_len \in 0..RECV_BUF_SIZE
        /\ \A o \in reads : o >= 0 /\ o < dg.recv_len
        /\ reads # {} => dg.recv_len >= 20
        /\ (reads \ {0, 8, 9}) # {} =>
             (h >= 20 /\ h <= 60 /\ dg.recv_len >= h + ICMP_HEADER_SIZE)

(* C19 witness: a matching reply with a 60-byte IP header and exactly 68
   bytes was accepted, its last ICMP byte read being the last byte received *)
C19_Witness ==
  /\ exit_code = 0
  /\ dg.recv_len = 68
  /\ dg.ip_hl = 15
  /\ 67 \in BytesRead(dg, "match")

(* C19, second witness: an empty datagram was discarded with no byte read *)
C19_WitnessEmpty ==
  /\ pc = "loop"
  /\ dg # NoDg
  /\ dg.recv_len = 0
  /\ BytesRead(dg, ValidateReply(dg, expected_id, expected_seq, expected_addr)) = {}

(* C20: with sequence number 1 and the same expected identifier and
   address, every datagram the hardened variant accepts is accepted by the
   simpler variant; the two decide differently only on a datagram whose
   ip_v is not 4, whose ip_p is not ICMP or whose icmp_code is not 0; a
   datagram of fewer than 20 bytes is discarded by both. *)
C20_HardenedRestrictsSimple ==
  (dg # NoDg /\ icmp_seq_value = SIMPLE_EXPECTED_SEQ) =>
    \A g \in HeaderLensSeenBySimple(dg) :
      LET hard == ValidateReply(dg, expected_id, expected_seq, expected_addr) = "match"
          simple == ValidateReplySimple([dg EXCEPT !.ip_hl = g], expected_id,
                                        SIMPLE_EXPECTED_SEQ, expected_addr) = "match"
      IN  /\ expected_seq = SIMPLE_EXPECTED_SEQ
          /\ hard => simple
          /\ (hard # simple) =>
               (dg.ip_v # 4 \/ dg.ip_p # IPPROTO_ICMP \/ dg.icmp_code # 0)
          /\ dg.recv_len < 20 => (~hard /\ ~simple)

(* C20 witness: the restriction is strict; with sequence number 1 the
   hardened variant discarded an Echo Reply with code 1 that the simpler
   variant accepts *)
C20_Witness ==
  /\ pc = "loop"
  /\ dg # NoDg
  /\ icmp_seq_value = SIMPLE_EXPECTED_SEQ
  /\ dg.icmp_code # 0
  /\ ValidateReply(dg, expected_id, expected_seq, expected_addr) = "bad_code"
  /\ ValidateReplySimple(dg, expected_id, SIMPLE_EXPECTED_SEQ, expected_addr) = "match"

(* C20, second witness: an empty datagram, for which the simpler variant
   reads a stale header-length byte, was discarded by the hardened variant *)
C20_WitnessEmpty ==
  /\ pc = "loop"
  /\ dg # NoDg
  /\ icmp_seq_value = SIMPLE_EXPECTED_SEQ
  /\ dg.recv_len = 0
  /\ \A g \in HeaderLensSeenBySimple(dg) :
       ValidateReplySimple([dg EXCEPT !.ip_hl = g], expected_id,
                           SIMPLE_EXPECTED_SEQ, expected_addr) # "match"

====
